---- MODULE Spec2Model ----
(***************************************************************************)
(* The simulate-and-playback control loop of the four visualisations       *)
(* (3body.py, orbita.py, presa-predador.py, sir.py): slider handlers that  *)
(* re-solve the ODE, the FuncAnimation that hands frame indices to the     *)
(* per-tick update function, the pause / mode-toggle key handler and the   *)
(* click query.                                                            *)
(*                                                                         *)
(* Real-valued quantities are scaled to integers (masses and rates by 10   *)
(* or 100).  The evaluation grid np.linspace(t0, t1, M) is scaled down to  *)
(* GridLen samples spaced 4 apart, so that a clicked time can fall on a    *)
(* sample, nearer to one of its two neighbours, or exactly midway.         *)
(*                                                                         *)
(* solve_ivp is not code of the repository.  It is a deterministic         *)
(* function of its arguments whose result holds the samples of the grid    *)
(* it reached: all of them, or a nonempty prefix when the integration      *)
(* stops early (status -1); no handler reads sol.status.  The model keeps  *)
(* the arguments a solution was computed from and its length: a re-solve   *)
(* with the arguments of the solution held returns that solution, any      *)
(* other solve may return any nonempty prefix of the grid.                 *)
(*                                                                         *)
(* FuncAnimation is matplotlib's: frames=N fixes the frame sequence        *)
(* range(N) at construction, repeat defaults to True, the first draw       *)
(* (_start) renders frame 0 (_init_draw) and starts the timer, and every   *)
(* timer tick (_step) hands next(frame_seq) to the update function.        *)
(*                                                                         *)
(* Spec is the control loop.  FieldSpec follows single calls of the three  *)
(* vector fields solve_ivp integrates (sir, three_body_equations,          *)
(* n_body_orbits) in exact arithmetic, with the control loop at rest.      *)
(***************************************************************************)
EXTENDS Integers, Sequences, FiniteSets, TLC

VARIABLES
    model,           \* which of the four scripts is running
    slider,          \* the Slider widgets' current values (.val)
    par,             \* the script's parameter variables
    arrays,          \* the trajectory arrays the update functions read
    ani,             \* the current FuncAnimation (anim / ani)
    old_running,     \* the timer of a FuncAnimation that ani replaced is running
    frame,           \* the frame index most recently handed to the update function
    fault,           \* the most recent update call raised IndexError
    window,          \* the samples the update calls have handed to the artists
    is_paused,       \* presa-predador.py / sir.py: is_paused
    animation_type,  \* presa-predador.py / sir.py: animation_type
    report,          \* what the latest handler printed (<<>> when nothing)
    same_val,        \* the latest slider event delivered the slider's current value
    num,             \* a vector field call: its arguments and, once made, its result
    lastEvent        \* the event whose handler ran last

vars == <<model, slider, par, arrays, ani, old_running, frame, fault, window, is_paused,
          animation_type, report, same_val, num, lastEvent>>

Models == {"threebody", "orbita", "presa", "sir"}

HasKeys(m) == m \in {"presa", "sir"}

\* Number of samples of the evaluation grid (1000, 2000, 500 and 500 in the
\* scripts), scaled down.
GridLen == 4

\* np.linspace(*t_span, M): sample i (1-based here) is at time 4 * (i - 1).
t_eval == [i \in 1..GridLen |-> 4 * (i - 1)]

t_span == <<0, t_eval[GridLen]>>

----------------------------------------------------------------------------
(* Sliders *)

SliderNames(m) ==
    CASE m = "threebody" -> {"mass1", "mass2", "mass3"}
      [] m = "orbita"    -> {"star", "planet", "distance", "velocity"}
      [] m = "presa"     -> {"alpha", "beta", "delta", "gamma"}
      [] m = "sir"       -> {"beta", "gamma"}

\* valinit of each Slider (masses x10; orbita distance and velocity x10;
\* rates x100).
ValInit(m) ==
    CASE m = "threebody" -> [mass1 |-> 10, mass2 |-> 10, mass3 |-> 30]
      [] m = "orbita"    -> [star |-> 50, planet |-> 10, distance |-> 100,
                             velocity |-> 15]
      [] m = "presa"     -> [alpha |-> 10, beta |-> 2, delta |-> 1, gamma |-> 10]
      [] m = "sir"       -> [beta |-> 30, gamma |-> 10]

\* One other value inside each Slider's range.
OtherVal(m) ==
    CASE m = "threebody" -> [mass1 |-> 50, mass2 |-> 50, mass3 |-> 50]
      [] m = "orbita"    -> [star |-> 100, planet |-> 50, distance |-> 200,
                             velocity |-> 50]
      [] m = "presa"     -> [alpha |-> 50, beta |-> 50, delta |-> 50, gamma |-> 50]
      [] m = "sir"       -> [beta |-> 100, gamma |-> 50]

SliderVals(m, s) == {ValInit(m)[s], OtherVal(m)[s]}

----------------------------------------------------------------------------
(* The solver call of each script: the arguments solve_ivp receives *)

\* 3body.py default_parameters: state0 (x2).
state0_default == <<-2, 0, 2, 0, 0, 2, 0, -1, 0, 1, 1, 0>>

\* A solve that continues from the frame playback has reached instead of
\* starting at state0.
solve_three_body_live(st0, masses) ==
    [args |-> masses, y0 |-> <<st0, frame>>, t_span |-> t_span, t_eval |-> t_eval]

\* 3body.py solve_three_body(state0, masses, t_span, t_eval)
solve_three_body(st0, masses) ==
    [args |-> masses, y0 |-> st0, t_span |-> t_span, t_eval |-> t_eval]

\* orbita.py planets (mass x10, position x10, velocity x10)
planets_default ==
    << [mass |-> 10, position |-> <<100, 0>>, velocity |-> <<0, 15>>],
       [mass |-> 5,  position |-> <<70, 0>>,  velocity |-> <<0, 20>>],
       [mass |-> 20, position |-> <<150, 0>>, velocity |-> <<0, 12>>] >>

\* orbita.py prepare_initial_conditions(planets): (masses, initial_conditions)
prepare_initial_conditions(planets) ==
    [masses |-> [i \in 1..Len(planets) |-> planets[i].mass],
     initial_conditions |->
        [i \in 1..(4 * Len(planets)) |->
            IF i <= 2 * Len(planets)
            THEN planets[(i + 1) \div 2].position[2 - (i % 2)]
            ELSE planets[(i - 2 * Len(planets) + 1) \div 2].velocity[2 - (i % 2)]]]

\* solve_system recomputing the masses and the initial state from the planets
\* the sliders edited, instead of reading the module-level arrays.
solve_system_from_planets(mass_star, planets, masses, initial_conditions) ==
    LET n == Len(planets)
        now == prepare_initial_conditions(planets)
    IN  [args |-> <<mass_star>> \o now.masses,
         y0 |-> <<0, 0>> \o SubSeq(now.initial_conditions, 1, 2 * n)
                \o <<0, 0>> \o SubSeq(now.initial_conditions, 2 * n + 1, 4 * n),
         t_span |-> t_span, t_eval |-> t_eval]

\* orbita.py solve_system(mass_star, planets): reads the module-level masses
\* and initial_conditions; planets is used for len(planets) only.
solve_system(mass_star, planets, masses, initial_conditions) ==
    LET n == Len(planets)
    IN  [args |-> <<mass_star>> \o masses,
         y0 |-> <<0, 0>> \o SubSeq(initial_conditions, 1, 2 * n)
                \o <<0, 0>> \o SubSeq(initial_conditions, 2 * n + 1, 4 * n),
         t_span |-> t_span, t_eval |-> t_eval]

\* presa-predador.py initial_populations
initial_populations == <<40, 9>>

\* presa-predador.py solve_model(alpha, beta, delta, gamma)
solve_model(alpha, beta, delta, gamma) ==
    [args |-> <<alpha, beta, delta, gamma>>, y0 |-> initial_populations,
     t_span |-> t_span, t_eval |-> t_eval]

\* sir.py population, initial_infected, initial_recovered
population == 1000
initial_infected == 1
initial_recovered == 0
initial_susceptible == population - initial_infected - initial_recovered

\* sir.py solve_sir(beta, gamma)
solve_sir(beta, gamma) ==
    [args |-> <<beta, gamma>>,
     y0 |-> <<initial_susceptible, initial_infected, initial_recovered>>,
     t_span |-> t_span, t_eval |-> t_eval]

\* The solver call the script makes with its current parameter variables.
SolverCall(m, p) ==
    CASE m = "threebody" -> solve_three_body(p.state0, p.masses)
      [] m = "orbita"    -> solve_system(p.mass_star, p.planets, p.masses,
                                         p.initial_conditions)
      [] m = "presa"     -> solve_model(p.alpha, p.beta, p.delta, p.gamma)
      [] m = "sir"       -> solve_sir(p.beta, p.gamma)

\* Results solve_ivp can return for the call inp when held is the solution
\* currently held: the same solution for the same arguments, otherwise the
\* samples of a nonempty prefix of t_eval.
solve_ivp(inp, held) ==
    IF held.inp = inp THEN {held}
    ELSE {[inp |-> inp, n |-> k] : k \in 1..Len(inp.t_eval)}

\* The first solve of each script, with the default parameters: complete.
FirstSolution(inp) == [inp |-> inp, n |-> Len(inp.t_eval)]

----------------------------------------------------------------------------
(* Trajectory arrays *)

\* The arrays each script unpacks from a solution.
ArrayNames(m) ==
    CASE m = "threebody" -> {"x1", "y1", "x2", "y2", "x3", "y3"}
      [] m = "orbita"    -> {"time", "positions"}
      [] m = "presa"     -> {"time", "preys", "predators"}
      [] m = "sir"       -> {"time", "susceptible", "infected", "recovered"}

\* x1, y1, ... = solution.y[0], ...; time, solution = sol.t, sol.y; ...
Unpack(m, sol) == [a \in ArrayNames(m) |-> sol]

\* The arrays the update function func indexes with the frame itself (a
\* slice never raises; a scalar index past the end raises IndexError).
Indexed(m, func) ==
    CASE func = "update"        -> {"x1", "y1", "x2", "y2", "x3", "y3"}
      [] func = "update_orbits" -> {"positions"}
      [] func = "update_curves" -> {}
      [] func = "update_points" -> ArrayNames(m) \ {"time"}

\* The update call func(f) raises IndexError on the arrays arrs.
Raises(m, func, arrs, f) == \E a \in Indexed(m, func) : f >= arrs[a].n

----------------------------------------------------------------------------
(* The update functions: what a call hands to the artists *)

\* The trail lengths (100 in 3body.py's update, trail_length = 200 in
\* orbita.py: a tenth of the grid), scaled down with the grid.
TrailLen == 2

Max(a, b) == IF a >= b THEN a ELSE b

\* The indices (0-based) Python's a[lo:hi] selects from an array of n
\* samples; a slice past the end is cut, it does not raise.
Slice(lo, hi, n) == {i \in lo..(hi - 1) : i < n}

\* The artists before any update call: ax.plot([], []).
NoWindow == [trail |-> {}, point |-> {}]

\* update(frame) of 3body.py on window w: the bodies are set first, so a
\* raise leaves every artist as it was.
update(arrs, f, w) ==
    IF Raises("threebody", "update", arrs, f)
    THEN w
    ELSE [trail |-> Slice(Max(0, f - TrailLen), f, arrs["x1"].n), point |-> {f}]

\* A trail that starts at frame - trail_length without the max(0, ...).
update_orbits_unclamped(arrs, f, w) ==
    LET start == f - TrailLen
    IN  [trail |-> Slice(start, f, arrs["positions"].n),
         point |-> IF Raises("orbita", "update_orbits", arrs, f) THEN w.point ELSE {f}]

\* update_orbits(frame) of orbita.py on window w: the line of the first
\* planet is set before its point, so a raise leaves the new line with the
\* old point.
update_orbits(arrs, f, w) ==
    LET start == Max(0, f - TrailLen)
    IN  [trail |-> Slice(start, f, arrs["positions"].n),
         point |-> IF Raises("orbita", "update_orbits", arrs, f) THEN w.point ELSE {f}]

\* update_curves(frame) of presa-predador.py and sir.py: time[:frame] and
\* the series' [:frame]; no single sample is handed over.
update_curves(arrs, f, w) ==
    [trail |-> Slice(0, f, arrs["time"].n), point |-> {}]

\* update_points(frame) of presa-predador.py and sir.py: ax.clear(), then a
\* scatter of int(series[frame]) points per series.
update_points(m, arrs, f, w) ==
    [trail |-> {},
     point |-> IF Raises(m, "update_points", arrs, f) THEN {} ELSE {f}]

\* The call func(f) of the animation's update function.
Render(m, func, arrs, f, w) ==
    CASE func = "update"        -> update(arrs, f, w)
      [] func = "update_orbits" -> update_orbits(arrs, f, w)
      [] func = "update_curves" -> update_curves(arrs, f, w)
      [] func = "update_points" -> update_points(m, arrs, f, w)

----------------------------------------------------------------------------
(* FuncAnimation *)

\* FuncAnimation(fig, func, frames=n, interval=ms) after its first draw:
\* frame_seq = iter(range(n)), timer started.
FuncAnimation(func, n, ms) ==
    [func |-> func, frames |-> n, next |-> 0, running |-> TRUE,
     interval |-> ms, timer |-> ms]

\* Parameter variables at start-up.
InitPar(m) ==
    CASE m = "threebody" -> [masses |-> <<10, 10, 30>>, state0 |-> state0_default]
      [] m = "orbita"    ->
            [mass_star |-> 50, planets |-> planets_default,
             masses |-> prepare_initial_conditions(planets_default).masses,
             initial_conditions |->
                prepare_initial_conditions(planets_default).initial_conditions]
      [] m = "presa"     -> [alpha |-> 10, beta |-> 2, delta |-> 1, gamma |-> 10]
      [] m = "sir"       -> [beta |-> 30, gamma |-> 10]

InitFunc(m) ==
    CASE m = "threebody" -> "update"
      [] m = "orbita"    -> "update_orbits"
      [] OTHER           -> "update_curves"

\* frames= of the first FuncAnimation: len(t_eval) in 3body.py, len(time) in
\* the other three.
InitFrames(m, arrs) ==
    IF m = "threebody" THEN Len(t_eval) ELSE arrs["time"].n

\* No vector field call is followed: the scripts' control loop runs.
NoField == [field |-> "none"]

\* The script m as it stands when plt.show() is entered.
Started ==
    /\ slider = [s \in SliderNames(model) |-> ValInit(model)[s]]
    /\ par = InitPar(model)
    /\ frame = 0
    /\ arrays = Unpack(model, FirstSolution(SolverCall(model, par)))
    /\ ani = FuncAnimation(InitFunc(model), InitFrames(model, arrays), 30)
    /\ old_running = FALSE
    /\ fault = FALSE
    /\ window = Render(model, InitFunc(model), arrays, 0, NoWindow)
    /\ is_paused = FALSE
    /\ animation_type = "curves"
    /\ report = <<>>
    /\ same_val = FALSE
    /\ lastEvent = "init"

Init ==
    /\ model \in Models
    /\ num = NoField
    /\ Started

----------------------------------------------------------------------------
(* Timer tick: TimedAnimation._step *)

\* Whether the timer keeps running after the callback raised depends on the
\* GUI backend (Tk does not re-arm it, Qt does).
RunningAfter(raised) == IF raised THEN BOOLEAN ELSE {TRUE}

\* TimedAnimation._step with the frame sequence exhausted and repeat=False:
\* the animation pauses on the last frame.
TimedAnimation_step_once(m, a, arrs) ==
    IF a.next < a.frames
    THEN LET f == a.next
             raised == Raises(m, a.func, arrs, f)
         IN  {[ani |-> [a EXCEPT !.next = f + 1, !.running = r,
                                 !.timer = IF raised THEN @ ELSE a.interval],
               frame |-> f, fault |-> raised] : r \in RunningAfter(raised)}
    ELSE {[ani |-> [a EXCEPT !.running = FALSE], frame |-> frame, fault |-> fault]}

\* TimedAnimation._step on animation a over the arrays arrs: the outcomes
\* (the animation after the step, the frame handed to the update function,
\* whether the update raised).
TimedAnimation_step(m, a, arrs) ==
    IF a.next < a.frames
    THEN \* framedata = next(self.frame_seq); self._func(framedata);
         \* event_source.interval = self._interval
         LET f == a.next
             raised == Raises(m, a.func, arrs, f)
         IN  {[ani |-> [a EXCEPT !.next = f + 1, !.running = r,
                                 !.timer = IF raised THEN @ ELSE a.interval],
               frame |-> f, fault |-> raised] : r \in RunningAfter(raised)}
    ELSE \* StopIteration with repeat=True (the default): _init_draw() renders
         \* frame 0, frame_seq = new_frame_seq(), interval = repeat_delay (0)
         LET raised == Raises(m, a.func, arrs, 0)
         IN  {[ani |-> [a EXCEPT !.next = IF raised THEN @ ELSE 0,
                                 !.running = r,
                                 !.timer = IF raised THEN @ ELSE 0],
               frame |-> 0, fault |-> raised] : r \in RunningAfter(raised)}

\* The timer of the current animation fires.
Tick ==
    /\ ani.running
    /\ \E o \in TimedAnimation_step(model, ani, arrays) :
          /\ ani' = o.ani
          /\ frame' = o.frame
          /\ fault' = o.fault
          /\ window' = Render(model, ani.func, arrays, o.frame, window)
    /\ report' = <<>>
    /\ same_val' = FALSE
    /\ lastEvent' = "tick"
    /\ UNCHANGED <<old_running, num, model, slider, par, arrays, is_paused,
                   animation_type>>

----------------------------------------------------------------------------
(* 3body.py *)

\* on_change(val), after slider s was set to v.  Slider.set_val notifies
\* the observers whatever the value, also when v is the value it has.
on_change ==
    /\ model = "threebody"
    /\ \E s \in SliderNames(model) : \E v \in SliderVals(model, s) :
        LET sl == [slider EXCEPT ![s] = v]
            masses == <<sl["mass1"], sl["mass2"], sl["mass3"]>>
        IN  /\ slider' = sl
            /\ par' = [par EXCEPT !.masses = masses]
            /\ \E sol \in solve_ivp(solve_three_body(par.state0, masses), arrays["x1"]) :
                  arrays' = Unpack(model, sol)
    \* event_source.stop(); start(); frame_seq = new_frame_seq(); start()
    /\ ani' = [ani EXCEPT !.next = 0, !.running = TRUE]
    /\ report' = <<>>
    /\ same_val' = (slider' = slider)
    /\ lastEvent' = "slider"
    /\ UNCHANGED <<old_running, num, window, model, frame, fault, is_paused,
                   animation_type>>

----------------------------------------------------------------------------
(* orbita.py *)

\* The loop of update_params over planets: every planet gets the sliders'
\* mass, x position and y velocity.
SetPlanets(planets, sl) ==
    [i \in 1..Len(planets) |->
        [mass |-> sl["planet"],
         position |-> <<sl["distance"], planets[i].position[2]>>,
         velocity |-> <<planets[i].velocity[1], sl["velocity"]>>]]

\* reset_simulation restarting the plot without re-solving.
reset_simulation_keep(p, arrs) == {arrs}

\* reset_simulation(): the solutions solve_system(mass_star, planets) can
\* return, unpacked into time and positions.
reset_simulation(p, arrs) ==
    {Unpack("orbita", sol) :
        sol \in solve_ivp(solve_system(p.mass_star, p.planets, p.masses,
                                       p.initial_conditions), arrs["time"])}

\* update_params(val), after slider s was set to v
update_params_orbita ==
    /\ model = "orbita"
    /\ \E s \in SliderNames(model) : \E v \in SliderVals(model, s) :
        LET sl == [slider EXCEPT ![s] = v]
            p  == [par EXCEPT !.mass_star = sl["star"],
                              !.planets = SetPlanets(par.planets, sl)]
        IN  /\ slider' = sl
            /\ par' = p
            /\ arrays' \in reset_simulation(p, arrays)
    \* event_source.stop(); start(); frame_seq = new_frame_seq(); start();
    \* then reset_simulation: event_source.stop(); setup_plot(); start()
    /\ ani' = [ani EXCEPT !.next = 0, !.running = TRUE]
    /\ report' = <<>>
    /\ same_val' = (slider' = slider)
    /\ lastEvent' = "slider"
    /\ UNCHANGED <<old_running, num, window, model, frame, fault, is_paused,
                   animation_type>>

----------------------------------------------------------------------------
(* presa-predador.py and sir.py: the same handlers over different arrays *)

\* reset_animation() leaving the old animation's timer as it is.
event_source_keep(a) == a

\* ani.event_source.stop()
event_source_stop(a) == [a EXCEPT !.running = FALSE]

\* reset_animation() building the curves animation whatever the type.
reset_animation_curves(type, arrs) ==
    FuncAnimation("update_curves", arrs["time"].n, 30)

\* reset_animation(): the old timer is stopped and ani is a new
\* FuncAnimation for the current animation_type over the current time
\* array; plt.draw() draws, which starts it.
reset_animation(type, arrs) ==
    IF type = "curves"
    THEN FuncAnimation("update_curves", arrs["time"].n, 30)
    ELSE FuncAnimation("update_points", arrs["time"].n, 150)

\* The parameter variables update_params reads from the sliders.
ReadSliders(m, sl) ==
    IF m = "presa"
    THEN [alpha |-> sl["alpha"], beta |-> sl["beta"], delta |-> sl["delta"],
          gamma |-> sl["gamma"]]
    ELSE [beta |-> sl["beta"], gamma |-> sl["gamma"]]

\* update_params(val), after slider s was set to v
update_params ==
    /\ HasKeys(model)
    /\ \E s \in SliderNames(model) : \E v \in SliderVals(model, s) :
        LET sl == [slider EXCEPT ![s] = v]
            p  == ReadSliders(model, sl)
        IN  /\ slider' = sl
            /\ par' = p
            /\ \E sol \in solve_ivp(SolverCall(model, p), arrays["time"]) :
                  arrays' = Unpack(model, sol)
    /\ ani' = reset_animation(animation_type, arrays')
    /\ old_running' = (old_running \/ event_source_stop(ani).running)
    /\ frame' = 0
    /\ fault' = Raises(model, ani'.func, arrays', 0)
    /\ window' = Render(model, ani'.func, arrays', 0, NoWindow)
    /\ report' = <<>>
    /\ same_val' = (slider' = slider)
    /\ lastEvent' = "slider"
    /\ UNCHANGED <<num, model, is_paused, animation_type>>

\* on_key(event) with event.key == " "
on_key_space ==
    /\ HasKeys(model)
    /\ is_paused' = ~is_paused
    /\ ani' = [ani EXCEPT !.running = ~is_paused']
    /\ report' = <<>>
    /\ same_val' = FALSE
    /\ lastEvent' = "space"
    /\ UNCHANGED <<old_running, num, window, model, slider, par, arrays, frame,
                   fault, animation_type>>

\* The "t" branch of on_key with a reset_animation that goes back to the
\* start-up parameters and their solution.
on_key_t_resets ==
    /\ HasKeys(model)
    /\ animation_type' = IF animation_type = "curves" THEN "points" ELSE "curves"
    /\ par' = InitPar(model)
    /\ arrays' = Unpack(model, FirstSolution(SolverCall(model, par')))
    /\ ani' = reset_animation(animation_type', arrays')
    /\ old_running' = (old_running \/ event_source_stop(ani).running)
    /\ frame' = 0
    /\ fault' = Raises(model, ani'.func, arrays', 0)
    /\ window' = Render(model, ani'.func, arrays', 0, NoWindow)
    /\ report' = <<>>
    /\ same_val' = FALSE
    /\ lastEvent' = "toggle"
    /\ UNCHANGED <<num, model, slider, is_paused>>

\* on_key(event) with event.key == "t"
on_key_t ==
    /\ HasKeys(model)
    /\ animation_type' = IF animation_type = "curves" THEN "points" ELSE "curves"
    /\ ani' = reset_animation(animation_type', arrays)
    /\ old_running' = (old_running \/ event_source_stop(ani).running)
    /\ frame' = 0
    /\ fault' = Raises(model, ani'.func, arrays, 0)
    /\ window' = Render(model, ani'.func, arrays, 0, NoWindow)
    /\ report' = <<>>
    /\ same_val' = FALSE
    /\ lastEvent' = "toggle"
    /\ UNCHANGED <<num, model, slider, par, arrays, is_paused>>

\* on_key(event) with any other key: neither branch runs
on_key_other ==
    /\ HasKeys(model)
    /\ report' = <<>>
    /\ same_val' = FALSE
    /\ lastEvent' = "key"
    /\ UNCHANGED <<old_running, num, window, model, slider, par, arrays, ani,
                   frame, fault, is_paused,
                   animation_type>>

AbsDiff(a, b) == IF a >= b THEN a - b ELSE b - a

\* The time array held: the samples of t_eval the solve reached.
TimeArray(arrs) == SubSeq(arrs["time"].inp.t_eval, 1, arrs["time"].n)

\* The index of the last sample at or before x (truncation instead of the
\* nearest sample).
argmin_floor(time, x) ==
    CHOOSE i \in 1..Len(time) :
        /\ time[i] <= x
        /\ \A j \in (i + 1)..Len(time) : time[j] > x

\* np.abs(time - x).argmin(): the first index of the least distance
\* (1-based here).
argmin_abs(time, x) ==
    CHOOSE i \in 1..Len(time) :
        /\ \A j \in 1..Len(time) : AbsDiff(time[i], x) <= AbsDiff(time[j], x)
        /\ \A j \in 1..(i - 1) : AbsDiff(time[j], x) > AbsDiff(time[i], x)

\* Sample i of array a, named by the solve it comes from.
Sample(arrs, a, i) == <<a, arrs[a].inp.args, i>>

\* Clicked times: on the axis, and one step outside it on either side.
ClickTimes == (0 - 1)..(t_span[2] + 1)

\* on_click(event) with event.xdata == x
on_click ==
    /\ HasKeys(model)
    /\ \E x \in ClickTimes :
        IF 0 <= x /\ x <= t_span[2]
        THEN LET time_idx == argmin_abs(TimeArray(arrays), x)
             IN  report' = <<x, time_idx,
                             [a \in ArrayNames(model) \ {"time"} |->
                                 Sample(arrays, a, time_idx)]>>
        ELSE report' = <<>>
    /\ same_val' = FALSE
    /\ lastEvent' = "click"
    /\ UNCHANGED <<old_running, num, window, model, slider, par, arrays, ani,
                   frame, fault, is_paused,
                   animation_type>>

----------------------------------------------------------------------------

Next ==
    \/ Tick
    \/ on_change
    \/ update_params_orbita
    \/ update_params
    \/ on_key_space
    \/ on_key_t
    \/ on_key_other
    \/ on_click

Spec == Init /\ [][Next]_vars

----------------------------------------------------------------------------
(* The vector fields handed to solve_ivp, evaluated on one state.           *)
(* Arithmetic is exact: the SIR derivatives are carried times               *)
(* 100 * population (the rates are x100), and a gravitational term          *)
(* c / r**3 is carried as the numerator c filed under the pair of bodies    *)
(* whose distance r is, the distance itself (a square root) staying a       *)
(* positive symbol.                                                         *)

\* sir(t, populations) of solve_sir with dR_dt = gamma * R.
sir_gamma_R(beta, gamma, populations) ==
    LET S == populations[1]
        I == populations[2]
        R == populations[3]
    IN  <<0 - beta * S * I,
          beta * S * I - gamma * I * population,
          gamma * R * population>>

\* sir(t, populations) of solve_sir: [dS_dt, dI_dt, dR_dt], each times
\* 100 * population.
sir(beta, gamma, populations) ==
    LET S == populations[1]
        I == populations[2]
        R == populations[3]
        dS_dt == 0 - beta * S * I
        dI_dt == beta * S * I - gamma * I * population
        dR_dt == gamma * I * population
    IN  <<dS_dt, dI_dt, dR_dt>>

\* The pairs of n bodies: one distance r each.
Pairs(n) == {{i, j} : i, j \in 1..n} \ {{i} : i \in 1..n}

\* c / r**3 with r the distance of the pair p of n bodies.
Over(c, p, n) == [q \in Pairs(n) |-> IF q = p THEN c ELSE 0]

Plus(a, b) == [q \in DOMAIN a |-> a[q] + b[q]]

\* three_body_equations with F21 computed from m2 instead of m1.
three_body_equations_m2(state, masses) ==
    LET x1 == state[1]   y1 == state[2]
        x2 == state[3]   y2 == state[4]
        x3 == state[5]   y3 == state[6]
        m1 == masses[1]  m2 == masses[2]  m3 == masses[3]
        F12x == Over(m2 * (x2 - x1), {1, 2}, 3)
        F12y == Over(m2 * (y2 - y1), {1, 2}, 3)
        F13x == Over(m3 * (x3 - x1), {1, 3}, 3)
        F13y == Over(m3 * (y3 - y1), {1, 3}, 3)
        F21x == Over(m2 * (x1 - x2), {1, 2}, 3)
        F21y == Over(m2 * (y1 - y2), {1, 2}, 3)
        F23x == Over(m3 * (x3 - x2), {2, 3}, 3)
        F23y == Over(m3 * (y3 - y2), {2, 3}, 3)
        F31x == Over(m1 * (x1 - x3), {1, 3}, 3)
        F31y == Over(m1 * (y1 - y3), {1, 3}, 3)
        F32x == Over(m2 * (x2 - x3), {2, 3}, 3)
        F32y == Over(m2 * (y2 - y3), {2, 3}, 3)
    IN  <<state[7], state[8], state[9], state[10], state[11], state[12],
          Plus(F12x, F13x), Plus(F12y, F13y), Plus(F21x, F23x),
          Plus(F21y, F23y), Plus(F31x, F32x), Plus(F31y, F32y)>>

\* three_body_equations(t, state, masses):
\* [vx1, vy1, vx2, vy2, vx3, vy3, ax1, ay1, ax2, ay2, ax3, ay3]
three_body_equations(state, masses) ==
    LET x1 == state[1]   y1 == state[2]
        x2 == state[3]   y2 == state[4]
        x3 == state[5]   y3 == state[6]
        m1 == masses[1]  m2 == masses[2]  m3 == masses[3]
        F12x == Over(m2 * (x2 - x1), {1, 2}, 3)
        F12y == Over(m2 * (y2 - y1), {1, 2}, 3)
        F13x == Over(m3 * (x3 - x1), {1, 3}, 3)
        F13y == Over(m3 * (y3 - y1), {1, 3}, 3)
        F21x == Over(m1 * (x1 - x2), {1, 2}, 3)
        F21y == Over(m1 * (y1 - y2), {1, 2}, 3)
        F23x == Over(m3 * (x3 - x2), {2, 3}, 3)
        F23y == Over(m3 * (y3 - y2), {2, 3}, 3)
        F31x == Over(m1 * (x1 - x3), {1, 3}, 3)
        F31y == Over(m1 * (y1 - y3), {1, 3}, 3)
        F32x == Over(m2 * (x2 - x3), {2, 3}, 3)
        F32y == Over(m2 * (y2 - y3), {2, 3}, 3)
        ax1 == Plus(F12x, F13x)
        ay1 == Plus(F12y, F13y)
        ax2 == Plus(F21x, F23x)
        ay2 == Plus(F21y, F23y)
        ax3 == Plus(F31x, F32x)
        ay3 == Plus(F31y, F32y)
    IN  <<state[7], state[8], state[9], state[10], state[11], state[12],
          ax1, ay1, ax2, ay2, ax3, ay3>>

\* orbita.py G
G == 1

\* compute_acceleration(positions, masses): accelerations[i] is the sum over
\* the other bodies j of G * masses[j] * r_vec / r**3, r_vec = positions[j] -
\* positions[i]; per body its <<x, y>> components.
compute_acceleration(positions, masses) ==
    LET n == Len(positions)
        term(i, j, c) == Over(G * masses[j] * (positions[j][c] - positions[i][c]),
                              {i, j}, n)
        sum(i, c) == [q \in Pairs(n) |->
                        IF i \in q
                        THEN term(i, CHOOSE j \in q : j # i, c)[q]
                        ELSE 0]
    IN  [i \in 1..n |-> <<sum(i, 1), sum(i, 2)>>]

\* n_body_orbits(t, state, masses): the velocities, then the accelerations,
\* per body.
n_body_orbits(state, masses) ==
    LET n == Len(masses)
        positions == [i \in 1..n |-> <<state[2 * i - 1], state[2 * i]>>]
        velocities == [i \in 1..n |-> <<state[2 * n + 2 * i - 1], state[2 * n + 2 * i]>>]
        accelerations == compute_acceleration(positions, masses)
    IN  [velocities |-> velocities, accelerations |-> accelerations]

\* Population levels the SIR field is evaluated on (the start-up state
\* <<999, 1, 0>> among them; the levels need not add up to population).
Levels == {0, 1, 500, 999}

\* Positions (x2, as state0) the three bodies are placed on.
BodyPositions == {-2, 0, 2} \X {0, 2}

\* The slider values as each vector field receives them.
RateVals(s) == SliderVals("sir", s)
MassVals(s) == SliderVals("threebody", s)

\* The calls of a set whose three bodies are at pairwise distinct positions.
Distinct(calls) ==
    {c \in calls :
        Cardinality({<<c.state[1], c.state[2]>>, <<c.state[3], c.state[4]>>,
                     <<c.state[5], c.state[6]>>}) = 3}

\* The calls followed: sir on any levels, three_body_equations on bodies at
\* pairwise distinct positions with the velocities of state0, n_body_orbits
\* on the initial state solve_system builds (star mass x10, as the planets').
FieldInputs ==
    {[field |-> "sir", args |-> <<b, g>>, state |-> <<S, I, R>>,
      done |-> FALSE, dy |-> <<>>] :
        b \in RateVals("beta"), g \in RateVals("gamma"),
        S \in Levels, I \in Levels, R \in Levels}
    \cup
    Distinct(
    {[field |-> "threebody", args |-> <<m1, m2, m3>>,
      state |-> <<p1[1], p1[2], p2[1], p2[2], p3[1], p3[2]>>
                \o SubSeq(state0_default, 7, 12),
      done |-> FALSE, dy |-> <<>>] :
        m1 \in MassVals("mass1"), m2 \in MassVals("mass2"),
        m3 \in MassVals("mass3"),
        p1 \in BodyPositions, p2 \in BodyPositions, p3 \in BodyPositions})
    \cup
    {[field |-> "orbita",
      args |-> <<10 * star>> \o Tail(solve_system(star, planets_default,
                    InitPar("orbita").masses,
                    InitPar("orbita").initial_conditions).args),
      state |-> solve_system(star, planets_default, InitPar("orbita").masses,
                             InitPar("orbita").initial_conditions).y0,
      done |-> FALSE, dy |-> <<>>] :
        star \in SliderVals("orbita", "star")}

\* Every variable of the control loop.
control == <<model, slider, par, arrays, ani, old_running, frame, fault, window, is_paused,
             animation_type, report, same_val, lastEvent>>

FieldInit ==
    /\ num \in FieldInputs
    /\ model = num.field
    /\ Started

\* solve_ivp calls sir (sir.py:32)
call_sir ==
    /\ num.field = "sir"
    /\ ~num.done
    /\ num' = [num EXCEPT !.done = TRUE,
                          !.dy = sir(num.args[1], num.args[2], num.state)]
    /\ UNCHANGED control

\* solve_ivp calls three_body_equations (3body.py:45-52)
call_three_body_equations ==
    /\ num.field = "threebody"
    /\ ~num.done
    /\ num' = [num EXCEPT !.done = TRUE,
                          !.dy = three_body_equations(num.state, num.args)]
    /\ UNCHANGED control

\* solve_ivp calls n_body_orbits (orbita.py:63-65)
call_n_body_orbits ==
    /\ num.field = "orbita"
    /\ ~num.done
    /\ num' = [num EXCEPT !.done = TRUE,
                          !.dy = n_body_orbits(num.state, num.args)]
    /\ UNCHANGED control

FieldNext ==
    \/ call_sir
    \/ call_three_body_equations
    \/ call_n_body_orbits

FieldSpec == FieldInit /\ [][FieldNext]_vars

----------------------------------------------------------------------------
(* Claims *)

\* Length of the trajectory held: the shortest of the arrays.
TrajLen == CHOOSE n \in {arrays[a].n : a \in ArrayNames(model)} :
               \A b \in ArrayNames(model) : n <= arrays[b].n

\* C1: the frame index a timer tick hands to the update function satisfies
\* 0 <= frame < length of the trajectory held, also after a recompute that
\* returned fewer samples than the evaluation grid has.
C1_FrameInRange ==
    lastEvent = "tick" => (0 <= frame /\ frame < TrajLen)

\* C2 as claimed, for a complete trajectory and an animation whose frame
\* sequence is as long as it: once the last frame (trajectory length - 1) has
\* been rendered, a timer tick leaves the frame index unchanged.
C2_NoWraparound ==
    [][(lastEvent' = "tick" /\ TrajLen = Len(t_eval) /\ ani.frames = TrajLen
        /\ ani.next = ani.frames /\ frame = TrajLen - 1) => frame' = frame]_vars

\* C2 as amended: a tick that finds the frame sequence exhausted wraps
\* around (it renders frame 0, restarts the sequence at 0 and the timer keeps
\* running), every other tick hands out the next index of the sequence, and
\* the sequence goes back to 0 only by that wraparound, a slider recompute or
\* a mode switch.
C2_Wraparound ==
    [][/\ (lastEvent' = "tick" /\ ani.next >= ani.frames)
            => (frame' = 0 /\ ani'.next = 0 /\ ani'.running)
       /\ (lastEvent' = "tick" /\ ani.next < ani.frames)
            => (frame' = ani.next /\ ani'.next = ani.next + 1)
       /\ (ani'.next = 0 /\ ani.next > 0)
            => \/ lastEvent' \in {"slider", "toggle"}
               \/ (lastEvent' = "tick" /\ ani.next >= ani.frames)]_vars

\* C2 witness: playback ran through every frame of a sequence and the tick
\* after the last frame wrapped around to frame 0.
C2_Witness ==
    /\ lastEvent = "tick"
    /\ frame = 0
    /\ ani.next = 0
    /\ ani.running

\* The values the solve of the arrays held used for the parameter of slider
\* s: an argument of the vector field, or components of the initial state.
UsedValues(m, s) ==
    LET inp == arrays[CHOOSE a \in ArrayNames(m) : TRUE].inp
    IN  CASE m = "threebody" ->
                {inp.args[CASE s = "mass1" -> 1 [] s = "mass2" -> 2 [] s = "mass3" -> 3]}
          [] m = "presa" ->
                {inp.args[CASE s = "alpha" -> 1 [] s = "beta" -> 2
                            [] s = "delta" -> 3 [] s = "gamma" -> 4]}
          [] m = "sir" ->
                {inp.args[CASE s = "beta" -> 1 [] s = "gamma" -> 2]}
          [] m = "orbita" ->
                CASE s = "star"     -> {inp.args[1]}
                  [] s = "planet"   -> {inp.args[1 + i] : i \in 1..3}
                  [] s = "distance" -> {inp.y0[2 * i + 1] : i \in 1..3}
                  [] s = "velocity" -> {inp.y0[10 + 2 * i] : i \in 1..3}

\* C3: after a slider-change handler returns, the trajectory held was solved
\* with the current value of every slider: each slider's value is among the
\* values the solve used for its parameter.
C3_SolveUsesSliders ==
    lastEvent = "slider" =>
        \A s \in SliderNames(model) : slider[s] \in UsedValues(model, s)

\* C4: after a recompute or a mode switch the controller is Playing at
\* frame 0: the timer runs, the next tick renders frame 0 and the playback
\* state is not paused.
C4_RestartPlaying ==
    lastEvent \in {"slider", "toggle"} =>
        (ani.running /\ ani.next = 0 /\ ~is_paused)

\* C5: a space press while ticks are advancing stops them, a space press
\* while playback is stopped by pause resumes them, and the frame index is
\* the same before and after the press.
C5_PauseToggles ==
    [][lastEvent' = "space" =>
        /\ ani.running => ~ani'.running
        /\ (~ani.running /\ is_paused) => ani'.running
        /\ frame' = frame /\ ani'.next = ani.next]_vars
\* The solver call of the first solve, with the start-up parameters.
OriginalCall == SolverCall(model, InitPar(model))

C7_OneSolve ==
    /\ \A a, b \in ArrayNames(model) : arrays[a] = arrays[b]
    /\ \A a \in ArrayNames(model) : arrays[a].inp = SolverCall(model, par)
    /\ lastEvent = "slider" => ani.next = 0

\* C7 witness: the first tick after a recompute that replaced the trajectory
\* by a shorter one solved with other parameters.
C7_Witness ==
    /\ lastEvent = "tick"
    /\ frame = 0
    /\ ani.next = 1
    /\ TrajLen < Len(t_eval)
    /\ \A a \in ArrayNames(model) : arrays[a].inp # OriginalCall

\* C8: a step that is not a slider-change handler (a tick, a space press, a
\* mode toggle, another key, a click) leaves the trajectory arrays, the
\* parameter variables and the slider values unchanged.
C8_OnlySliderChanges ==
    [][lastEvent' # "slider" => UNCHANGED <<arrays, par, slider>>]_vars

\* C8 witness: a mode toggle ran while the parameters differ from the
\* start-up ones.
C8_Witness ==
    /\ lastEvent = "toggle"
    /\ par # InitPar(model)
    /\ \A a \in ArrayNames(model) : arrays[a].inp.args # OriginalCall.args

C11_DegradedSilently ==
    TrajLen < Len(t_eval) =>
        /\ \A a \in ArrayNames(model) : arrays[a].inp = SolverCall(model, par)
        /\ ~fault

C13_RecomputeIdempotent ==
    [][/\ (lastEvent' = "slider" /\ slider' = slider) => arrays' = arrays
       /\ lastEvent' \in {"tick", "space", "toggle", "key", "click"}
            => (arrays' = arrays /\ slider' = slider)]_vars

\* C13 witness: in 3body.py a recompute with unchanged sliders ran after
\* playback had moved on from frame 0, and the trajectory it left in place
\* is the shortened one of an earlier recompute with other masses.
C13_Witness ==
    /\ model = "threebody"
    /\ lastEvent = "slider"
    /\ same_val
    /\ \E s \in SliderNames(model) : slider[s] # ValInit(model)[s]
    /\ TrajLen < Len(t_eval)
    /\ frame > 0

\* C14: whatever the state (S, I, R) and the rates beta and gamma, the three
\* derivatives sir returns add up to zero, and the start-up populations add
\* up to population.
C14_SIRConserves ==
    /\ initial_susceptible + initial_infected + initial_recovered = population
    /\ (num.field = "sir" /\ num.done) => num.dy[1] + num.dy[2] + num.dy[3] = 0

\* C14 witness: sir was evaluated on the start-up populations and returned
\* nonzero derivatives.
C14_Witness ==
    /\ num.field = "sir"
    /\ num.done
    /\ num.state = <<initial_susceptible, initial_infected, initial_recovered>>
    /\ num.dy[1] < 0
    /\ num.dy[3] > 0

\* C15: for bodies at pairwise distinct positions and any masses, the
\* mass-weighted sum of the accelerations three_body_equations returns is
\* zero in x and in y (term by term, per distance).
C15_MomentumConserved ==
    (num.field = "threebody" /\ num.done) =>
        LET m == num.args
            a == num.dy
        IN  \A q \in Pairs(3) :
                /\ m[1] * a[7][q] + m[2] * a[9][q] + m[3] * a[11][q] = 0
                /\ m[1] * a[8][q] + m[2] * a[10][q] + m[3] * a[12][q] = 0

\* C15 witness: three_body_equations was evaluated with three different
\* masses and returned a nonzero acceleration for body 1 in x and in y.
C15_Witness ==
    /\ num.field = "threebody"
    /\ num.done
    /\ Cardinality({num.args[1], num.args[2], num.args[3]}) = 3
    /\ \E q \in Pairs(3) : num.dy[7][q] # 0
    /\ \E q \in Pairs(3) : num.dy[8][q] # 0

\* C16: the derivative n_body_orbits returns for the star (body 1) is zero:
\* its velocity components and every term of its acceleration.
C16_StarFixed ==
    (num.field = "orbita" /\ num.done) =>
        /\ num.dy.velocities[1] = <<0, 0>>
        /\ \A q \in Pairs(Len(num.args)) :
                /\ num.dy.accelerations[1][1][q] = 0
                /\ num.dy.accelerations[1][2][q] = 0

\* C17: in presa-predador.py and sir.py the paused flag agrees with the
\* timer: is_paused is true exactly when the current animation's timer is
\* stopped.
C17_PausedIffStopped ==
    HasKeys(model) => (is_paused <=> ~ani.running)

\* C18: in presa-predador.py and sir.py the current animation is the one of
\* the display mode (update_curves built with interval 30 for "curves",
\* update_points built with interval 150 for "points"), and a slider
\* recompute leaves the display mode as it was.
C18_AnimationMatchesMode ==
    /\ [](HasKeys(model) =>
            /\ animation_type \in {"curves", "points"}
            /\ animation_type = "curves"
                  => (ani.func = "update_curves" /\ ani.interval = 30)
            /\ animation_type = "points"
                  => (ani.func = "update_points" /\ ani.interval = 150))
    /\ [][lastEvent' = "slider" => animation_type' = animation_type]_vars

\* C18 witness: a slider recompute in points mode rebuilt the points
\* animation.
C18_Witness ==
    /\ HasKeys(model)
    /\ lastEvent = "slider"
    /\ animation_type = "points"
    /\ ani.func = "update_points"
    /\ ani.interval = 150

\* C19: no animation that was replaced has its timer running: the frame
\* index is advanced by the current animation's timer alone.
C19_OneTickSource == ~old_running

\* C19 witness: a mode switch and then a slider recompute each replaced an
\* animation while playback was not paused, and the new one is running.
C19_Witness ==
    /\ HasKeys(model)
    /\ lastEvent = "slider"
    /\ animation_type = "points"
    /\ ~is_paused
    /\ ani.running
    /\ ~old_running
====
